---- MODULE Spec2Model ----
(***************************************************************************)
(* Model of scripts/detect-secrets/plugins.py: AnthropicSecretsDetector,   *)
(* a RegexBasedDetector whose denylist holds five compiled patterns and    *)
(* whose secret_type is 'API Credentials'.  A text is a sequence of code   *)
(* points, each written as a string; a pattern is the sequence of greedy   *)
(* quantified character sets that re.compile builds from its literal.      *)
(***************************************************************************)
EXTENDS Integers, Sequences, FiniteSets, TLC

VARIABLES denylist, pc, arg, idx, out, err, memo

vars == <<denylist, pc, arg, idx, out, err, memo>>

(***************************************************************************)
(* Bounds of the model.                                                    *)
(***************************************************************************)
\* longest run of key characters that follows a key prefix
MaxRun == 97
\* how far the length of a key-value value strays from the threshold
Slack == 1
\* number of threads that share the detector
NumThreads == 2

(***************************************************************************)
(* Code points.                                                            *)
(***************************************************************************)
UpperSeq == <<"A","B","C","D","E","F","G","H","I","J","K","L","M",
              "N","O","P","Q","R","S","T","U","V","W","X","Y","Z">>
LowerSeq == <<"a","b","c","d","e","f","g","h","i","j","k","l","m",
              "n","o","p","q","r","s","t","u","v","w","x","y","z">>
Upper == {UpperSeq[i] : i \in 1..26}
Lower == {LowerSeq[i] : i \in 1..26}
Digit == {"0","1","2","3","4","5","6","7","8","9"}
\* the characters \s matches that the model draws from (U+00A0: no-break space)
Whitespace == {" ", "\t", "\n", "U+00A0"}
\* non-ASCII letters that are case-equivalent to an ASCII letter:
\* KELVIN SIGN, LATIN CAPITAL I WITH DOT ABOVE, DOTLESS I, LONG S
CasedExtras == {"U+212A", "U+0130", "U+0131", "U+017F"}
Alphabet ==
    {c : c \in Upper \cup Lower \cup Digit \cup Whitespace \cup CasedExtras
                 \cup {"_", "-", ":", "=", "'", "\"", ".", "#"}}

\* the case folding under which re.IGNORECASE compares two code points
Fold(c) ==
    IF c \in Upper THEN LowerSeq[CHOOSE i \in 1..26 : UpperSeq[i] = c]
    ELSE IF c = "U+212A" THEN "k"
    ELSE IF c \in {"U+0130", "U+0131"} THEN "i"
    ELSE IF c = "U+017F" THEN "s"
    ELSE c

(***************************************************************************)
(* Pattern syntax: what re.compile builds.                                 *)
(***************************************************************************)
\* a literal string: each character exactly once
Lit(s) == [i \in 1..Len(s) |-> [cls |-> {s[i]}, lo |-> 1, hi |-> 1, open |-> FALSE]]
\* [cls]? , [cls]* and [cls]{n,}
Opt(cls) == <<[cls |-> cls, lo |-> 0, hi |-> 1, open |-> FALSE]>>
Star(cls) == <<[cls |-> cls, lo |-> 0, hi |-> 0, open |-> TRUE]>>
AtLeast(cls, n) == <<[cls |-> cls, lo |-> n, hi |-> n, open |-> TRUE]>>

\* under IGNORECASE a set takes every code point case-equivalent to a member
CaseClosure(cls) == {c \in Alphabet : \E x \in cls : Fold(c) = Fold(x)}

RECURSIVE CompileItems(_, _)
CompileItems(items, ignorecase) ==
    IF items = <<>> THEN <<>>
    ELSE <<[Head(items) EXCEPT !.cls = IF ignorecase THEN CaseClosure(@) ELSE @]>>
         \o CompileItems(Tail(items), ignorecase)

\* re.compile(literal, flags)
re_compile(items, ignorecase) ==
    [items |-> CompileItems(items, ignorecase), ignorecase |-> ignorecase]

(***************************************************************************)
(* The plugin: secret_type and the five patterns of denylist.              *)
(***************************************************************************)
\* a label other than the documented one
secret_type_renamed == "Anthropic API Key"

secret_type == "API Credentials"

Alnum == Upper \cup Lower \cup Digit
\* ['"\s]
QuoteOrSpace == {"'", "\""} \cup Whitespace
\* [A-Za-z0-9_-]
KeyChars == Alnum \cup {"_", "-"}

\* the anthropic pattern with its minimum one too small: {94,}
anthropic_key_min94 ==
    re_compile(Lit(<<"s","k","-","a","n","t","-","a","p","i","0","3","-">>)
               \o AtLeast(KeyChars, 94), FALSE)

\* r'sk-ant-api03-[A-Za-z0-9_-]{95,}'
anthropic_key ==
    re_compile(Lit(<<"s","k","-","a","n","t","-","a","p","i","0","3","-">>)
               \o AtLeast(KeyChars, 95), FALSE)

\* the sk- pattern with its minimum one too large: {49,}
sk_key_min49 == re_compile(Lit(<<"s","k","-">>) \o AtLeast(Alnum, 49), FALSE)

\* the sk- pattern with . in place of its character set: r'sk-.{48,}'
sk_key_any_char ==
    re_compile(Lit(<<"s","k","-">>) \o AtLeast(Alphabet \ {"\n"}, 48), FALSE)

\* r'sk-[A-Za-z0-9]{48,}'
sk_key == re_compile(Lit(<<"s","k","-">>) \o AtLeast(Alnum, 48), FALSE)

\* r'pa-[A-Za-z0-9]{48,}'
pa_key == re_compile(Lit(<<"p","a","-">>) \o AtLeast(Alnum, 48), FALSE)

\* the api_key pattern compiled without re.IGNORECASE
api_key_assignment_case_sensitive ==
    re_compile(Lit(<<"a","p","i">>) \o Opt({"_", "-"}) \o Lit(<<"k","e","y">>)
               \o Star(QuoteOrSpace) \o <<[cls |-> {":", "="}, lo |-> 1, hi |-> 1, open |-> FALSE]>>
               \o Star(QuoteOrSpace) \o AtLeast(KeyChars, 20), FALSE)

\* the api_key pattern with its join required: r'api[_-]key...'
api_key_assignment_join_required ==
    re_compile(Lit(<<"a","p","i">>) \o <<[cls |-> {"_", "-"}, lo |-> 1, hi |-> 1, open |-> FALSE]>>
               \o Lit(<<"k","e","y">>)
               \o Star(QuoteOrSpace) \o <<[cls |-> {":", "="}, lo |-> 1, hi |-> 1, open |-> FALSE]>>
               \o Star(QuoteOrSpace) \o AtLeast(KeyChars, 20), TRUE)

\* r'api[_-]?key[\'"\s]*[:=][\'"\s]*[A-Za-z0-9_\-]{20,}', re.IGNORECASE
api_key_assignment ==
    re_compile(Lit(<<"a","p","i">>) \o Opt({"_", "-"}) \o Lit(<<"k","e","y">>)
               \o Star(QuoteOrSpace) \o <<[cls |-> {":", "="}, lo |-> 1, hi |-> 1, open |-> FALSE]>>
               \o Star(QuoteOrSpace) \o AtLeast(KeyChars, 20), TRUE)

\* r'apikey[\'"\s]*[:=][\'"\s]*[A-Za-z0-9_\-]{20,}', re.IGNORECASE
apikey_assignment ==
    re_compile(Lit(<<"a","p","i","k","e","y">>)
               \o Star(QuoteOrSpace) \o <<[cls |-> {":", "="}, lo |-> 1, hi |-> 1, open |-> FALSE]>>
               \o Star(QuoteOrSpace) \o AtLeast(KeyChars, 20), TRUE)

\* the list without its last pattern, the apikey one
denylist_without_apikey ==
    <<anthropic_key, sk_key, pa_key, api_key_assignment>>

\* the list with every pattern taken out
denylist_emptied == <<>>

\* the class attribute denylist, as the class body builds it
denylist_literal ==
    <<anthropic_key, sk_key, pa_key, api_key_assignment, apikey_assignment>>

(***************************************************************************)
(* Matching: a backtracking matcher of greedy quantified sets, and the     *)
(* left-to-right scan of findall.  Positions are 1-based; 0 is "no match". *)
(***************************************************************************)
\* how many characters from p on the item takes greedily: up to the first
\* character outside its set, and no more than its maximum
RunLen(text, p, item) ==
    LET stop == CHOOSE q \in p..(Len(text) + 1) :
                    /\ q = Len(text) + 1 \/ text[q] \notin item.cls
                    /\ \A r \in p..(q - 1) : text[r] \in item.cls
    IN  IF ~item.open /\ stop - p > item.hi THEN item.hi ELSE stop - p

RECURSIVE MatchFrom(_, _, _, _)
RECURSIVE TryCounts(_, _, _, _, _)
\* item k takes c characters at p, then c-1, ... down to its minimum, until
\* the rest of the pattern matches; the position after the match, or 0
TryCounts(pat, k, text, p, c) ==
    IF c < pat.items[k].lo THEN 0
    ELSE LET e == MatchFrom(pat, k + 1, text, p + c)
         IN  IF e # 0 THEN e ELSE TryCounts(pat, k, text, p, c - 1)

\* items k.. of the pattern matched at position p
MatchFrom(pat, k, text, p) ==
    IF k > Len(pat.items) THEN p
    ELSE TryCounts(pat, k, text, p, RunLen(text, p, pat.items[k]))

\* the leftmost match that starts at p or later: <<start, end>>, or <<0, 0>>
Search(pat, text, p) ==
    LET starts == p..(Len(text) + 1)
    IN  IF \A q \in starts : MatchFrom(pat, 1, text, q) = 0 THEN <<0, 0>>
        ELSE LET s == CHOOSE q \in starts :
                          /\ MatchFrom(pat, 1, text, q) # 0
                          /\ \A r \in p..(q - 1) : MatchFrom(pat, 1, text, r) = 0
             IN  <<s, MatchFrom(pat, 1, text, s)>>

RECURSIVE FindFrom(_, _, _)
\* the matches of findall from p on: each resumes where the previous ended
FindFrom(pat, text, p) ==
    LET m == Search(pat, text, p)
    IN  IF m[1] = 0 THEN <<>>
        ELSE <<[offset |-> m[1] - 1, text |-> SubSeq(text, m[1], m[2] - 1)]>>
             \o FindFrom(pat, text, IF m[2] = m[1] THEN m[2] + 1 ELSE m[2])

\* regex.findall(string)
FindAll(pat, text) == FindFrom(pat, text, 1)

\* a match of the k-th pattern, reported as a Finding
Finding(k, m) ==
    [pattern |-> k, text |-> m.text, offset |-> m.offset, type |-> secret_type]

\* the Findings the k-th pattern of list yields on text
FindingsOf(list, k, text) ==
    LET ms == FindAll(list[k], text)
    IN  [i \in 1..Len(ms) |-> Finding(k, ms[i])]

RECURSIVE ScanFrom(_, _, _)
ScanFrom(list, k, text) ==
    IF k > Len(list) THEN <<>>
    ELSE FindingsOf(list, k, text) \o ScanFrom(list, k + 1, text)

\* a whole scan of text, run alone, over the pattern list
Scan(list, text) == ScanFrom(list, 1, text)

(***************************************************************************)
(* Inputs: what the host framework may hand to the detector.               *)
(***************************************************************************)
Text(chars) == [kind |-> "text", chars |-> chars]
\* values that are not text: a bytes object, None
NonText == {[kind |-> "bytes", chars |-> <<"s","k","-">>],
            [kind |-> "none", chars |-> <<>>]}
NoArg == [kind |-> "none", chars |-> <<>>]

\* n characters that repeat the characters of s in turn
Cycle(s, n) == [i \in 1..n |-> s[((i - 1) % Len(s)) + 1]]

KeyPrefixes == {<<"s","k","-","a","n","t","-","a","p","i","0","3","-">>,
                <<"s","k","-">>, <<"p","a","-">>, <<"S","K","-">>}
Fills == {<<"a">>, <<"A">>, <<"a","Z","7">>, <<"a","_">>}
\* a key prefix and a run of 0..MaxRun characters
PrefixedKeys ==
    {pre \o Cycle(f, n) : pre \in KeyPrefixes, f \in Fills, n \in 0..MaxRun}

ApiWords == {<<"a","p","i">>, <<"A","p","I">>}
Joins == {<<>>, <<"_">>, <<"-">>, <<".">>}
KeyWords == {<<"k","e","y">>, <<"K","e","Y">>}
Gaps == {<<>>, <<"\"">>, <<"'", " ">>}
Separators == {<<":">>, <<"=">>, <<>>}
ValueFills == {<<"a">>, <<"x","Y","4","_","-">>}
Closers == {<<>>, <<"\"">>}
\* key-value assignments: api, a join, key, a gap, a separator, a gap, a value
\* whose length is within Slack of 20, and a closing quote or none
Assignments ==
    {a \o j \o k \o g1 \o sp \o g2 \o Cycle(v, n) \o c :
        a \in ApiWords, j \in Joins, k \in KeyWords, g1 \in Gaps,
        sp \in Separators, g2 \in Gaps, v \in ValueFills,
        n \in (20 - Slack)..(20 + Slack), c \in Closers}

SomeKeys == {<<"s","k","-">> \o Cycle(<<"A">>, 48),
             <<"s","k","-">> \o Cycle(<<"a">>, 47),
             <<"p","a","-">> \o Cycle(<<"b">>, 48),
             <<"s","k","-","a","n","t","-","a","p","i","0","3","-">> \o Cycle(<<"A">>, 95)}
Glues == {<<>>, <<" ">>, <<"-">>, <<"\n">>}
\* two keys in one text
TwoKeys == {k1 \o g \o k2 : k1 \in SomeKeys, g \in Glues, k2 \in SomeKeys}
\* a key as the value of an assignment
Nested == {h \o k : h \in {<<"a","p","i","_","k","e","y","=">>,
                           <<"a","p","i","k","e","y",":"," ">>},
                    k \in SomeKeys}
\* texts with case-equivalent non-ASCII letters and other whitespace
Exotic == {<<"a","p","U+0131","_","U+212A","e","y","U+00A0","=","\t">> \o Cycle(<<"U+017F","q">>, 20),
           <<"a","p","i","k","e","y","=">> \o Cycle(<<"a">>, 19) \o <<"U+212A">>,
           <<"s","U+212A","-">> \o Cycle(<<"a">>, 48),
           <<>>, <<"#"," ","n","o"," ","k","e","y","s">>}

\* API_KEY: "abcdEFGH12345678901234"
QuotedAssignment ==
    <<"A","P","I","_","K","E","Y",":"," ","\"","a","b","c","d","E","F","G","H",
      "1","2","3","4","5","6","7","8","9","0","1","2","3","4","\"">>
\* a second anthropic prefix right after the first: two places a match could start
Overlapping ==
    <<"s","k","-","a","n","t","-","a","p","i","0","3","-",
      "s","k","-","a","n","t","-","a","p","i","0","3","-">> \o Cycle(<<"A">>, 95)
Examples == {QuotedAssignment, Overlapping}

Inputs ==
    {Text(c) : c \in PrefixedKeys \cup Assignments \cup TwoKeys \cup Nested
                      \cup Exotic \cup Examples}
        \cup NonText

(***************************************************************************)
(* The detector in use: each thread calls scan, which evaluates the        *)
(* patterns of denylist one after the other.                               *)
(***************************************************************************)
Threads == 1..NumThreads

Init ==
    /\ denylist = denylist_literal
    /\ pc = [t \in Threads |-> "idle"]
    /\ arg = [t \in Threads |-> NoArg]
    /\ idx = [t \in Threads |-> 0]
    /\ out = [t \in Threads |-> <<>>]
    /\ err = [t \in Threads |-> "none"]
    /\ memo = [set |-> FALSE, arg |-> NoArg, out |-> <<>>]

\* thread t calls scan(x), for some x of the inputs S
Call(t, S) ==
    /\ pc[t] = "idle"
    /\ \E x \in S :
          /\ pc' = [pc EXCEPT ![t] = "running"]
          /\ arg' = [arg EXCEPT ![t] = x]
          /\ idx' = [idx EXCEPT ![t] = 1]
          /\ out' = [out EXCEPT ![t] = <<>>]
          /\ err' = [err EXCEPT ![t] = "none"]
    /\ UNCHANGED <<denylist, memo>>

\* the pattern list treated as an iterator: a scan takes its next pattern off
\* the shared list, which a later scan then finds shorter
Step_exhausting(t) ==
    /\ pc[t] = "running"
    /\ idx[t] <= Len(denylist)
    /\ IF arg[t].kind = "text"
       THEN /\ out' = [out EXCEPT ![t] = @ \o FindingsOf(denylist, 1, arg[t].chars)]
            /\ denylist' = Tail(denylist)
            /\ UNCHANGED <<pc, err>>
       ELSE /\ pc' = [pc EXCEPT ![t] = "failed"]
            /\ err' = [err EXCEPT ![t] = "InvalidInputKind"]
            /\ UNCHANGED <<denylist, out>>
    /\ UNCHANGED <<idx, arg, memo>>

\* the scan of thread t evaluates its next pattern: findall on a text, an
\* error on anything else
Step(t) ==
    /\ pc[t] = "running"
    /\ idx[t] <= Len(denylist)
    /\ IF arg[t].kind = "text"
       THEN /\ out' = [out EXCEPT ![t] = @ \o FindingsOf(denylist, idx[t], arg[t].chars)]
            /\ idx' = [idx EXCEPT ![t] = @ + 1]
            /\ UNCHANGED <<pc, err>>
       ELSE /\ pc' = [pc EXCEPT ![t] = "failed"]
            /\ err' = [err EXCEPT ![t] = "InvalidInputKind"]
            /\ UNCHANGED <<idx, out>>
    /\ UNCHANGED <<denylist, arg, memo>>

\* the scan of thread t is past the last pattern and returns
Return(t) ==
    /\ pc[t] = "running"
    /\ idx[t] > Len(denylist)
    /\ pc' = [pc EXCEPT ![t] = "done"]
    /\ UNCHANGED <<denylist, arg, idx, out, err, memo>>

\* the caller of thread t is done with the result, or with the error
Release(t) ==
    /\ pc[t] \in {"done", "failed"}
    /\ pc' = [pc EXCEPT ![t] = "idle"]
    /\ arg' = [arg EXCEPT ![t] = NoArg]
    /\ idx' = [idx EXCEPT ![t] = 0]
    /\ out' = [out EXCEPT ![t] = <<>>]
    /\ err' = [err EXCEPT ![t] = "none"]
    /\ UNCHANGED <<denylist, memo>>

\* an observer keeps the result of one finished scan, to compare later
\* scans of the same input with it
Remember(t) ==
    /\ pc[t] = "done"
    /\ ~memo.set
    /\ memo' = [set |-> TRUE, arg |-> arg[t], out |-> out[t]]
    /\ UNCHANGED <<denylist, pc, arg, idx, out, err>>

\* one caller, every input
Next == Call(1, Inputs) \/ Step(1) \/ Return(1) \/ Release(1)

Spec == Init /\ [][Next]_vars

\* inputs of the threads: a text two patterns match, a text none matches, bytes
ThreadInputs ==
    {Text(<<"a","p","i","k","e","y","=">> \o Cycle(<<"a">>, 20)),
     Text(<<"#"," ","n","o"," ","k","e","y","s">>),
     [kind |-> "bytes", chars |-> <<"s","k","-">>]}

\* several threads share the detector; their scans interleave pattern by pattern
NextThreads ==
    \E t \in Threads :
        \/ Call(t, ThreadInputs)
        \/ Step(t)
        \/ Return(t)
        \/ Release(t)
        \/ Remember(t)

SpecThreads == Init /\ [][NextThreads]_vars

(***************************************************************************)
(* Vocabulary of the properties, stated apart from the matcher.            *)
(***************************************************************************)
\* thread t holds the result of a finished scan of a text
Finished(t) == pc[t] = "done" /\ arg[t].kind = "text"
\* the Findings of the k-th pattern among fs, in their order
ByPattern(fs, k) == SelectSeq(fs, LAMBDA f : f.pattern = k)
\* the (offset, matched text) pairs of fs
Pairs(fs) == {<<fs[i].offset, fs[i].text>> : i \in 1..Len(fs)}

Letters == {"a","b","c","d","e","f","g","h","i","j","k","l","m","n","o","p","q",
            "r","s","t","u","v","w","x","y","z",
            "A","B","C","D","E","F","G","H","I","J","K","L","M","N","O","P","Q",
            "R","S","T","U","V","W","X","Y","Z"}
Alphanumerics == Letters \cup {"0","1","2","3","4","5","6","7","8","9"}
ValueChars == Alphanumerics \cup {"_", "-"}
QuotesAndSpaces == {"'", "\"", " ", "\t", "\n", "U+00A0"}

\* the position after the run of characters of S that starts at p
RunEnd(chars, p, S) ==
    CHOOSE q \in p..(Len(chars) + 1) :
        /\ q = Len(chars) + 1 \/ chars[q] \notin S
        /\ \A r \in p..(q - 1) : chars[r] \in S

\* the word w (given in lower case) stands at p in upper or lower case
WordAt(chars, p, w) ==
    /\ p + Len(w) - 1 <= Len(chars)
    /\ \A i \in 1..Len(w) :
          \E j \in 1..26 : LowerSeq[j] = w[i] /\ chars[p + i - 1] \in {LowerSeq[j], UpperSeq[j]}

SkPrefix == <<"s","k","-">>
AnthropicPrefix == <<"s","k","-","a","n","t","-","a","p","i","0","3","-">>
\* chars is the prefix followed by characters of S and nothing else
PrefixThenOnly(chars, prefix, S) ==
    /\ Len(chars) >= Len(prefix)
    /\ SubSeq(chars, 1, Len(prefix)) = prefix
    /\ \A i \in (Len(prefix) + 1)..Len(chars) : chars[i] \in S

\* The key-value shape: api, an optional _ or -, key, quotes and spaces, : or =,
\* quotes and spaces, the value, closing quotes and spaces.  The places where
\* the join, the separator and the value end; shaped is whether chars has the shape.
KeyValue(chars) ==
    LET afterJoin == IF Len(chars) >= 4 /\ chars[4] \in {"_", "-"} THEN 5 ELSE 4
        sepAt == RunEnd(chars, afterJoin + 3, QuotesAndSpaces)
        valueAt == RunEnd(chars, sepAt + 1, QuotesAndSpaces)
        valueEnd == RunEnd(chars, valueAt, ValueChars)
        wordsOk == WordAt(chars, 1, <<"a","p","i">>) /\ WordAt(chars, afterJoin, <<"k","e","y">>)
    IN  IF wordsOk /\ sepAt <= Len(chars) /\ chars[sepAt] \in {":", "="}
        THEN [shaped |-> RunEnd(chars, valueEnd, QuotesAndSpaces) = Len(chars) + 1,
              joined |-> afterJoin = 5,
              valueLen |-> valueEnd - valueAt,
              valueEnd |-> valueEnd]
        ELSE [shaped |-> FALSE, joined |-> FALSE, valueLen |-> 0, valueEnd |-> 0]

(***************************************************************************)
(* Properties.                                                             *)
(***************************************************************************)

\* C1: on the text sk- followed by n alphanumeric characters and nothing
\* else, pattern 2 yields no Finding when n < 48, and when n >= 48 exactly
\* one Finding, which covers the whole text.
SkLengthBoundary ==
    \A t \in Threads :
        Finished(t) /\ PrefixThenOnly(arg[t].chars, SkPrefix, Alphanumerics) =>
            LET f2 == ByPattern(out[t], 2)
            IN  IF Len(arg[t].chars) - 3 < 48
                THEN f2 = <<>>
                ELSE /\ Len(f2) = 1
                     /\ f2[1].offset = 0
                     /\ f2[1].text = arg[t].chars

\* sk- and exactly 48 alphanumerics has been scanned and pattern 2 found it
SkLengthBoundaryWitness ==
    \E t \in Threads :
        /\ Finished(t)
        /\ PrefixThenOnly(arg[t].chars, SkPrefix, Alphanumerics)
        /\ Len(arg[t].chars) = 3 + 48
        /\ Len(ByPattern(out[t], 2)) = 1

\* C2: on sk-ant-api03- followed by 95 times A the scan yields exactly one
\* Finding, of pattern 1 (none of another pattern); on the prefix followed by
\* only 94 characters of [A-Za-z0-9_-] pattern 1 yields none.
AnthropicKeyDetected ==
    \A t \in Threads :
        Finished(t) =>
            /\ arg[t].chars = AnthropicPrefix \o Cycle(<<"A">>, 95) =>
                  /\ Len(out[t]) = 1
                  /\ out[t][1].pattern = 1
                  /\ out[t][1].offset = 0
                  /\ out[t][1].text = arg[t].chars
            /\ (/\ PrefixThenOnly(arg[t].chars, AnthropicPrefix, ValueChars)
                /\ Len(arg[t].chars) = 13 + 94) =>
                  ByPattern(out[t], 1) = <<>>

\* the prefix and 95 times A has been scanned, with one Finding
AnthropicKeyDetectedWitness ==
    \E t \in Threads :
        /\ Finished(t)
        /\ arg[t].chars = AnthropicPrefix \o Cycle(<<"A">>, 95)
        /\ Len(out[t]) = 1

\* C3: on a text of the key-value shape, in any mix of case and with any
\* quotes and spaces around the separator, pattern 4 yields one Finding (from
\* the start of the text to the end of the value) when the value has 20 or
\* more characters, and none when it has fewer.
KeyValueDetected ==
    \A t \in Threads :
        Finished(t) /\ KeyValue(arg[t].chars).shaped =>
            LET kv == KeyValue(arg[t].chars)
                f4 == ByPattern(out[t], 4)
            IN  IF kv.valueLen >= 20
                THEN /\ Len(f4) = 1
                     /\ f4[1].offset = 0
                     /\ f4[1].text = SubSeq(arg[t].chars, 1, kv.valueEnd - 1)
                ELSE f4 = <<>>

\* API_KEY: "abcdEFGH12345678901234" has been scanned and pattern 4 found it
KeyValueDetectedWitness ==
    \E t \in Threads :
        /\ Finished(t)
        /\ arg[t].chars = QuotedAssignment
        /\ KeyValue(arg[t].chars).shaped
        /\ Len(ByPattern(out[t], 4)) = 1

\* C4: every pattern that matches somewhere in the text has its own Findings
\* in the result, whatever the other patterns find; a text of the apikey
\* key-value shape with 20 or more value characters yields two Findings for
\* the one credential, one of pattern 4 and one of pattern 5.
NoDeduplication ==
    \A t \in Threads :
        Finished(t) =>
            /\ \A k \in 1..Len(denylist) :
                  (\E q \in 1..Len(arg[t].chars) :
                        MatchFrom(denylist[k], 1, arg[t].chars, q) # 0)
                     => ByPattern(out[t], k) # <<>>
            /\ LET kv == KeyValue(arg[t].chars)
               IN  kv.shaped /\ ~kv.joined /\ kv.valueLen >= 20 =>
                     \E i, j \in 1..Len(out[t]) :
                        /\ i < j
                        /\ out[t][i].pattern = 4
                        /\ out[t][j].pattern = 5
                        /\ out[t][i].offset = out[t][j].offset
                        /\ out[t][i].text = out[t][j].text

\* an apikey assignment has been scanned and reported twice
NoDeduplicationWitness ==
    \E t \in Threads :
        /\ Finished(t)
        /\ arg[t].chars = <<"a","p","i","k","e","y","=">> \o Cycle(<<"a">>, 20)
        /\ Len(out[t]) = 2

\* C5: whatever scans came before, a scan of an input an earlier scan has
\* already finished on yields the very Finding sequence of that earlier scan.
ScanIdempotent ==
    \A t \in Threads :
        pc[t] = "done" /\ memo.set /\ memo.arg = arg[t] => out[t] = memo.out

\* two calls on the same input have both finished, one of them remembered,
\* and they found something
ScanIdempotentWitness ==
    /\ memo.set
    /\ memo.out # <<>>
    /\ \E t, u \in Threads :
          /\ t # u
          /\ pc[t] = "done" /\ pc[u] = "done"
          /\ arg[t] = memo.arg /\ arg[u] = memo.arg

\* C6: a scan fails, with InvalidInputKind, exactly when its input is not a
\* text: a failed scan had no text and left the pattern list as it was, a
\* finished scan had a text and no error, and a scan under way is at a
\* pattern of the list or right past the last.
ErrorOnlyForNonText ==
    \A t \in Threads :
        /\ err[t] \in {"none", "InvalidInputKind"}
        /\ pc[t] = "failed" =>
              /\ arg[t].kind # "text"
              /\ err[t] = "InvalidInputKind"
              /\ denylist = denylist_literal
        /\ pc[t] = "done" => arg[t].kind = "text" /\ err[t] = "none"
        /\ pc[t] = "running" => err[t] = "none" /\ idx[t] \in 1..(Len(denylist) + 1)

\* a scan of a value that is no text has failed
ErrorOnlyForNonTextWitness ==
    \E t \in Threads :
        pc[t] = "failed" /\ arg[t].kind = "bytes" /\ err[t] = "InvalidInputKind"

\* C7: however the scans of the threads interleave, a finished scan holds
\* what a scan of its input yields when run alone, and the pattern list is
\* in every state the list built at construction.
ConcurrentScansIndependent ==
    /\ denylist = denylist_literal
    /\ \A t \in Threads :
          pc[t] = "done" => out[t] = Scan(denylist_literal, arg[t].chars)

\* two scans are under way at once, at different patterns, one of them with Findings
ConcurrentScansIndependentWitness ==
    \E t, u \in Threads :
        /\ t # u
        /\ pc[t] = "running" /\ pc[u] = "running"
        /\ 1 < idx[t] /\ idx[t] < idx[u]
        /\ out[u] # <<>>

\* C8: every Finding carries the label "API Credentials".
LabelConstant ==
    \A t \in Threads :
        \A i \in 1..Len(out[t]) : out[t][i].type = "API Credentials"

\* a finished scan holds Findings of two different patterns
LabelConstantWitness ==
    \E t \in Threads :
        /\ Finished(t)
        /\ \E i, j \in 1..Len(out[t]) : out[t][i].pattern # out[t][j].pattern

RECURSIVE CountUpTo(_, _)
\* how many of fs belong to patterns 1..k
CountUpTo(fs, k) ==
    IF k = 0 THEN 0 ELSE Len(ByPattern(fs, k)) + CountUpTo(fs, k - 1)

\* C9: the Findings of a pattern are matches of it at their offsets, do not
\* overlap, come in increasing offset, and every place where the pattern
\* matches lies in one of them (so each is the leftmost match after the
\* previous one's end); the Findings of an earlier pattern precede those of a
\* later one; their number is the sum of the per-pattern counts; two sk- keys
\* of 48 alphanumerics with a space between yield two pattern-2 Findings,
\* the left one first.
ScanEnumeration ==
    \A t \in Threads :
        Finished(t) =>
            LET chars == arg[t].chars
                fs == out[t]
            IN  /\ \A i \in 1..Len(fs) : fs[i].pattern \in 1..Len(denylist)
                /\ \A i \in 1..(Len(fs) - 1) : fs[i].pattern <= fs[i + 1].pattern
                /\ Len(fs) = CountUpTo(fs, Len(denylist))
                /\ \A k \in 1..Len(denylist) :
                      LET fk == ByPattern(fs, k)
                      IN  /\ \A i \in 1..Len(fk) :
                                /\ fk[i].text = SubSeq(chars, fk[i].offset + 1,
                                                       fk[i].offset + Len(fk[i].text))
                                /\ MatchFrom(denylist[k], 1, chars, fk[i].offset + 1)
                                      = fk[i].offset + 1 + Len(fk[i].text)
                          /\ \A i \in 1..(Len(fk) - 1) :
                                fk[i].offset + Len(fk[i].text) <= fk[i + 1].offset
                          /\ \A q \in 1..Len(chars) :
                                MatchFrom(denylist[k], 1, chars, q) # 0 =>
                                   \E i \in 1..Len(fk) :
                                      /\ fk[i].offset < q
                                      /\ q <= fk[i].offset + Len(fk[i].text)
                /\ chars = SkPrefix \o Cycle(<<"A">>, 48) \o <<" ">>
                              \o SkPrefix \o Cycle(<<"A">>, 48) =>
                      LET f2 == ByPattern(fs, 2)
                      IN  /\ Len(f2) = 2
                          /\ f2[1].offset = 0
                          /\ f2[2].offset = 52

\* a text with two sk- keys has been scanned, with two Findings
ScanEnumerationWitness ==
    \E t \in Threads :
        /\ Finished(t)
        /\ arg[t].chars = SkPrefix \o Cycle(<<"A">>, 48) \o <<" ">>
                              \o SkPrefix \o Cycle(<<"A">>, 48)
        /\ Len(out[t]) = 2

====
